---- MODULE Spec2Model ----
(***************************************************************************)
(* A model of the benchmark driver of src/src/benchmark.cc: RunBenchmarks  *)
(* (the instances and their reporters), RunBenchmark (the iteration        *)
(* controller and the repetition loop), RunInThread (one worker of a       *)
(* trial) and the State operations a benchmark body calls.                 *)
(*                                                                         *)
(* Times are exact rationals [n, d] counted in units of 1e-9 s, so that    *)
(* the divisions of lines 259, 260 and 317 are computed, not rounded.      *)
(* The thread manager (mutex, barrier, completion latch), the thread timer *)
(* and State::KeepRunning / State::iterations are declared in headers that *)
(* are not part of src/; they are modelled from spec.md sections 4.1-4.3.  *)
(*                                                                         *)
(* Spec follows the threads of each trial step by step, SpecRep does so    *)
(* over two repetitions, LiveSpec for bodies that drive KeepRunning to its *)
(* end, under fair scheduling. SpecCtl follows the retry loop of           *)
(* RunBenchmark up to kMaxIterations with each trial as a single step,     *)
(* LiveCtl does so for a controller that keeps going, SpecGrow for trial  *)
(* times at a tenth of min_time and just above, and SpecRun follows        *)
(* RunBenchmarks over lists of instances, with every call to a reporter,   *)
(* to ComputeBigO and to the memory manager logged in order. SpecProbe     *)
(* follows the memory probe of a reported trial call by call.              *)
(***************************************************************************)
EXTENDS Integers, Sequences, FiniteSets, TLC

\* ---------------------------------------------------------------- bounds
\* Largest number of threads of an instance.
MaxThreads == 2
\* A trial is run thread by thread (Spec) while iters is at most this.
MaxSteppedIters == 2
\* The optional State calls (PauseTiming, SkipWithError, SetIterationTime,
\* an early return) the bodies of one trial make, all workers together.
MaxBodyCalls == 3

\* ------------------------------------------------------------- constants
kMaxIterations == 1000000000

\* ------------------------------------------------------------- rationals
RECURSIVE GCD(_, _)
GCD(x, y) == IF y = 0 THEN x ELSE GCD(y, x % y)

\* The rational n/d in lowest terms (n >= 0, d > 0).
Rat(n, d) ==
    LET g == GCD(n, d)
    IN  IF n = 0 THEN [n |-> 0, d |-> 1] ELSE [n |-> n \div g, d |-> d \div g]

RatInt(i) == [n |-> i, d |-> 1]
RatAddInt(r, i) == Rat(r.n + i * r.d, r.d)
RatDivInt(r, k) == Rat(r.n, r.d * k)
RatGE(r, s) == r.n * s.d >= s.n * r.d
RatGT(r, s) == r.n * s.d > s.n * r.d
RatMax(r, s) == IF RatGE(r, s) THEN r ELSE s
RatMin(r, s) == IF RatGE(r, s) THEN s ELSE r

Max(x, y) == IF x >= y THEN x ELSE y
Min(x, y) == IF x <= y THEN x ELSE y

\* ------------------------------------------------------------------ data
\* What one StopTimer adds: <<cpu, real>> measured since the StartTimer.
TimerDeltas == {<<14, 16>>}
\* What one SetIterationTime call reports.
ManualSteps == {7}
\* What the body passes to SetBytesProcessed and to SetItemsProcessed.
ProcessedValues == {<<8, 10>>}
\* The messages a body passes to SkipWithError (any non-null string).
Messages == {"", "bad"}

NoManager == [none |-> TRUE]
NoResult == [none |-> TRUE]

\* ThreadManager::Result as the manager's constructor leaves it.
InitResult ==
    [iterations |-> 0,
     cpu_time_used |-> RatInt(0),
     real_time_used |-> RatInt(0),
     manual_time_used |-> RatInt(0),
     bytes_processed |-> 0,
     items_processed |-> 0,
     complexity_n |-> 0,
     counters |-> 0,
     has_error_ |-> FALSE,
     error_message_ |-> "",
     report_label_ |-> ""]

NewManager(threads) ==
    [results |-> InitResult,
     alive_threads_ |-> threads,
     running_threads_ |-> threads,
     entered_ |-> 0,
     phase_number_ |-> 0]

NewState(max_iters) ==
    [total_iterations_ |-> 0,
     max_iterations |-> max_iters,
     started_ |-> FALSE,
     finished_ |-> FALSE,
     error_occurred_ |-> FALSE,
     bytes_processed_ |-> 0,
     items_processed_ |-> 0,
     complexity_n |-> 0,
     counters |-> 0]

NewTimer ==
    [running_ |-> FALSE,
     cpu_time_used_ |-> 0,
     real_time_used_ |-> 0,
     manual_time_used_ |-> 0]

\* ------------------------------------------------ RunBenchmark, pure parts
\* IsZero(n): |n| < epsilon; the model's min_time is a whole number of ns.
IsZero(n) == n = 0

\* NormalizeResults dividing the cpu time as well.
NormalizeResultsAlsoCpu(res, threads) ==
    [res EXCEPT !.cpu_time_used = RatDivInt(res.cpu_time_used, threads),
                !.real_time_used = RatDivInt(res.real_time_used, threads),
                !.manual_time_used = RatDivInt(res.manual_time_used, threads)]

\* Lines 258-260: real and manual time become the mean over the threads.
NormalizeResults(res, threads) ==
    [res EXCEPT !.real_time_used = RatDivInt(res.real_time_used, threads),
                !.manual_time_used = RatDivInt(res.manual_time_used, threads)]

\* SelectSeconds asking for use_real_time before use_manual_time.
SelectSecondsRealFirst(bb, res) ==
    IF bb.use_real_time THEN res.real_time_used
    ELSE IF bb.use_manual_time THEN res.manual_time_used
    ELSE res.cpu_time_used

\* Lines 265-271: the time basis.
SelectSeconds(bb, res) ==
    IF bb.use_manual_time THEN res.manual_time_used
    ELSE IF bb.use_real_time THEN res.real_time_used
    ELSE res.cpu_time_used

\* Lines 273-274.
ResolveMinTime(bb, flags) ==
    IF ~IsZero(bb.min_time) THEN bb.min_time ELSE flags.benchmark_min_time

\* ShouldReport without the error clause of line 282.
ShouldReportIgnoresError(rep, has_explicit, res, it, secs, min_time, use_manual) ==
    \/ rep > 0
    \/ has_explicit
    \/ it >= kMaxIterations
    \/ RatGE(secs, RatInt(min_time))
    \/ (RatGE(res.real_time_used, RatInt(5 * min_time)) /\ ~use_manual)

\* ShouldReport without the real-time clause of line 288.
ShouldReportNoRealTimeClause(rep, has_explicit, res, it, secs, min_time, use_manual) ==
    \/ rep > 0
    \/ has_explicit
    \/ res.has_error_
    \/ it >= kMaxIterations
    \/ RatGE(secs, RatInt(min_time))

\* ShouldReport without the repetition clause of line 280.
ShouldReportNoRepetitionClause(rep, has_explicit, res, it, secs, min_time, use_manual) ==
    \/ has_explicit
    \/ res.has_error_
    \/ it >= kMaxIterations
    \/ RatGE(secs, RatInt(min_time))
    \/ (RatGE(res.real_time_used, RatInt(5 * min_time)) /\ ~use_manual)

\* ShouldReport with every trial taken for a later repetition.
ShouldReportAnyRepetition(rep, has_explicit, res, it, secs, min_time, use_manual) ==
    \/ rep >= 0
    \/ has_explicit
    \/ res.has_error_
    \/ it >= kMaxIterations
    \/ RatGE(secs, RatInt(min_time))
    \/ (RatGE(res.real_time_used, RatInt(5 * min_time)) /\ ~use_manual)

\* ShouldReport without the explicit-iteration-count clause of line 281.
ShouldReportNoExplicit(rep, has_explicit, res, it, secs, min_time, use_manual) ==
    \/ rep > 0
    \/ res.has_error_
    \/ it >= kMaxIterations
    \/ RatGE(secs, RatInt(min_time))
    \/ (RatGE(res.real_time_used, RatInt(5 * min_time)) /\ ~use_manual)

\* ShouldReport without the kMaxIterations clause of line 283.
ShouldReportNoCap(rep, has_explicit, res, it, secs, min_time, use_manual) ==
    \/ rep > 0
    \/ has_explicit
    \/ res.has_error_
    \/ RatGE(secs, RatInt(min_time))
    \/ (RatGE(res.real_time_used, RatInt(5 * min_time)) /\ ~use_manual)

\* Lines 280-288.
ShouldReport(rep, has_explicit, res, it, secs, min_time, use_manual) ==
    \/ rep > 0
    \/ has_explicit
    \/ res.has_error_
    \/ it >= kMaxIterations
    \/ RatGE(secs, RatInt(min_time))
    \/ (RatGE(res.real_time_used, RatInt(5 * min_time)) /\ ~use_manual)

\* Multiplier without the cap of line 324.
MultiplierNoCap(secs, min_time) ==
    LET mx == RatMax(secs, RatInt(1))
        m0 == Rat(14 * min_time * mx.d, 10 * mx.n)
    IN  IF RatGE(RatInt(1), m0) THEN RatInt(2) ELSE m0

\* Lines 317-325 (min_time > 0 here: the trial was not reported, so
\* 0 <= seconds < min_time).
Multiplier(secs, min_time) ==
    LET mx == RatMax(secs, RatInt(1))
        m0 == Rat(14 * min_time * mx.d, 10 * mx.n)
        is_significant == 10 * secs.n > min_time * secs.d
        m1 == IF is_significant THEN m0 ELSE RatMin(RatInt(10), m0)
    IN  IF RatGE(RatInt(1), m1) THEN RatInt(2) ELSE m1

\* round-to-nearest of min(m * it, kMaxIterations), computed so that no
\* intermediate value leaves 32 bits: it = a * m.d + r.
RoundedProduct(m, it) ==
    LET a == it \div m.d
        r == it % m.d
    IN  IF a > kMaxIterations \div m.n THEN kMaxIterations
        ELSE Min(kMaxIterations, m.n * a + (2 * m.n * r + m.d) \div (2 * m.d))

\* NextIters without the max with iters + 1 of line 326.
NextItersNoFloor(it, m) ==
    Min(kMaxIterations, RoundedProduct(m, it))

\* Lines 326-331: max with iters + 1, the clamp, the cast of next_iters + 0.5.
NextIters(it, m) ==
    Min(kMaxIterations, Max(RoundedProduct(m, it), it + 1))

\* Lines 128-179.
CreateRunReport(bb, res, memory_iterations, memory_result, secs) ==
    LET positive == RatGT(secs, RatInt(0))
        base == [benchmark_name |-> bb.name,
                 error_occurred |-> res.has_error_,
                 error_message |-> res.error_message_,
                 report_label |-> res.report_label_,
                 iterations |-> res.iterations,
                 real_accumulated_time |-> RatInt(0),
                 cpu_accumulated_time |-> RatInt(0),
                 bytes_per_second |-> RatInt(0),
                 items_per_second |-> RatInt(0),
                 complexity_n |-> 0,
                 complexity |-> "oNone",
                 counters |-> 0,
                 has_memory_result |-> FALSE,
                 allocs_per_iter |-> RatInt(0),
                 max_bytes_used |-> 0]
    IN  IF res.has_error_ THEN base
        ELSE [base EXCEPT
                !.real_accumulated_time =
                    IF bb.use_manual_time THEN res.manual_time_used
                    ELSE res.real_time_used,
                !.cpu_accumulated_time = res.cpu_time_used,
                !.bytes_per_second =
                    IF res.bytes_processed > 0 /\ positive
                    THEN Rat(res.bytes_processed * secs.d, secs.n)
                    ELSE RatInt(0),
                !.items_per_second =
                    IF res.items_processed > 0 /\ positive
                    THEN Rat(res.items_processed * secs.d, secs.n)
                    ELSE RatInt(0),
                !.complexity_n = res.complexity_n,
                !.complexity = bb.complexity,
                !.counters = res.counters,
                !.has_memory_result = memory_iterations > 0,
                !.allocs_per_iter =
                    IF memory_iterations > 0
                    THEN Rat(memory_result.num_allocs, memory_iterations)
                    ELSE RatInt(0),
                !.max_bytes_used =
                    IF memory_iterations > 0 THEN memory_result.max_bytes_used
                    ELSE 0]

\* Lines 225-238: the two flags of run_results, resolved only when the
\* instance is repeated; `repeats` is the value of lines 223-224.
ReportFlags(bb, flags, repeats) ==
    IF repeats # 1
    THEN IF bb.aggregation_report_mode # {}
         THEN [display_report_aggregates_only |->
                   "display" \in bb.aggregation_report_mode,
               file_report_aggregates_only |->
                   "file" \in bb.aggregation_report_mode]
         ELSE [display_report_aggregates_only |->
                   flags.benchmark_report_aggregates_only
                   \/ flags.benchmark_display_aggregates_only,
               file_report_aggregates_only |->
                   flags.benchmark_report_aggregates_only]
    ELSE [display_report_aggregates_only |-> FALSE,
          file_report_aggregates_only |-> FALSE]

\* Line 215 and lines 225-238: run_results before the first repetition.
NewRunResults(bb, flags, repeats) ==
    [aggregates_only |-> <<>>,
     display_report_aggregates_only |->
         ReportFlags(bb, flags, repeats).display_report_aggregates_only,
     file_report_aggregates_only |->
         ReportFlags(bb, flags, repeats).file_report_aggregates_only]

\* spec.md 4.5 and section 8, property 6: compute_statistics gives no row
\* for fewer than two runs and one row per statistic descriptor otherwise.
ComputeStats(bb, runs) ==
    IF Len(runs) > 1
    THEN [i \in 1 .. Len(bb.statistics) |->
             [benchmark_name |-> bb.name, aggregate_name |-> bb.statistics[i]]]
    ELSE <<>>

\* spec.md 4.5: compute_big_o is a fit defined elsewhere; what it can
\* return for a family vector: no row, or the rows of the fit.
ComputeBigO(reports) ==
    IF reports = <<>> THEN {<<>>}
    ELSE {<<>>,
          <<[benchmark_name |-> reports[1].benchmark_name, aggregate_name |-> "BigO"],
            [benchmark_name |-> reports[1].benchmark_name, aggregate_name |-> "RMS"]>>}

\* Line 339.
FitsFamily(bb) == bb.complexity # "oNone" /\ bb.last_benchmark_instance

\* What the memory manager's Stop can hand back.
MemoryResults == {[num_allocs |-> 4, max_bytes_used |-> 64]}

\* ----------------------------------------------------------------- state
VARIABLES
    b,               \* the Instance being run (read only)
    FLAGS,           \* the command line flags (read only)
    cpc,             \* where the controller is in RunBenchmark
    iters,           \* line 220
    repetition_num,  \* line 239
    results,         \* line 252: the controller's copy of the Result
    non_aggregates,  \* run_results.non_aggregates
    manager,         \* the trial's ThreadManager, or NoManager
    wpc,             \* where each worker is in RunInThread
    st,              \* each worker's State
    timer,           \* each worker's ThreadTimer
    phase_cp,        \* each worker's copy of the barrier phase it waits in
    calls,           \* optional State calls the trial's bodies have made
    skip_calls,      \* the trial's SkipWithError messages, in mutex order
    benchmarks,      \* the instances RunBenchmarks runs after b
    complexity_reports,  \* line 481: the family vector
    run_results,     \* line 215: aggregates_only and the two report flags
    log,             \* in order: the calls made to the reporters, to
                     \* ComputeBigO and to the memory manager, and the
                     \* reports pushed onto non_aggregates
    env              \* memory_manager: one is registered; file_reporter:
                     \* RunBenchmarks is given one; NDEBUG: the build
                     \* compiles assert away

ctlVars == <<b, FLAGS, iters, repetition_num, results, non_aggregates>>
drvVars == <<benchmarks, complexity_reports, run_results, log, env>>
vars == <<b, FLAGS, cpc, iters, repetition_num, results, non_aggregates,
          manager, wpc, st, timer, phase_cp, calls, skip_calls,
          benchmarks, complexity_reports, run_results, log, env>>

Workers == 0 .. (b.threads - 1)

\* Lines 223-224.
Repeats ==
    IF b.repetitions # 0 THEN b.repetitions ELSE FLAGS.benchmark_repetitions

\* Line 219.
has_explicit_iteration_count == b.iterations # 0

\* The instances whose trials are followed thread by thread.
TrialInstances ==
    [name : {"BM"},
     threads : {1, MaxThreads},
     iterations : {0},
     repetitions : {0},
     min_time : {0},
     use_manual_time : {FALSE},
     use_real_time : {FALSE},
     complexity : {"oNone"},
     complexity_n : {0},
     last_benchmark_instance : {FALSE},
     aggregation_report_mode : {{}},
     statistics : {<<"mean">>}]

\* RunBenchmarks up to line 495 and RunBenchmark up to line 239, for a
\* list of instances out of `lists`, flags out of `flagset` and
\* registrations out of `envs`.
InitDriver(lists, flagset, envs) ==
    /\ \E l \in lists : b = Head(l) /\ benchmarks = Tail(l)
    /\ FLAGS \in flagset
    /\ env \in envs
    /\ iters = IF b.iterations # 0 THEN b.iterations ELSE 1
    /\ repetition_num = 0
    /\ cpc = IF 0 < Repeats THEN "trial" ELSE "done"
    /\ results = NoResult
    /\ non_aggregates = <<>>
    /\ manager = NoManager
    /\ wpc = [w \in Workers |-> "idle"]
    /\ st = [w \in Workers |-> NewState(iters)]
    /\ timer = [w \in Workers |-> NewTimer]
    /\ phase_cp = [w \in Workers |-> 0]
    /\ calls = 0
    /\ skip_calls = <<>>
    /\ complexity_reports = <<>>
    /\ run_results = NewRunResults(b, FLAGS, Repeats)
    /\ log = IF 0 < Repeats \/ ~FitsFamily(b) THEN <<>>
             ELSE <<[op |-> "ComputeBigO", reports |-> <<>>]>>

\* RunBenchmark up to line 239, for an instance of the set `insts`.
\* `mins` and `reps` are the values --benchmark_min_time (in units of
\* 1e-9 s) and --benchmark_repetitions are given on the command line.
InitWith(insts, mins, reps) ==
    /\ b \in insts
    /\ benchmarks = <<>>
    /\ FLAGS \in [benchmark_min_time : mins, benchmark_repetitions : reps,
                  benchmark_report_aggregates_only : {FALSE},
                  benchmark_display_aggregates_only : {FALSE}]
    /\ env = [memory_manager |-> FALSE, file_reporter |-> FALSE, NDEBUG |-> FALSE]
    /\ complexity_reports = <<>>
    /\ run_results = NewRunResults(b, FLAGS, Repeats)
    /\ log = <<>>
    /\ iters = IF b.iterations # 0 THEN b.iterations ELSE 1
    /\ repetition_num = 0
    /\ cpc = IF 0 < Repeats THEN "trial" ELSE "done"
    /\ results = NoResult
    /\ non_aggregates = <<>>
    /\ manager = NoManager
    /\ wpc = [w \in Workers |-> "idle"]
    /\ st = [w \in Workers |-> NewState(iters)]
    /\ timer = [w \in Workers |-> NewTimer]
    /\ phase_cp = [w \in Workers |-> 0]
    /\ calls = 0
    /\ skip_calls = <<>>

Init == InitWith(TrialInstances, {30}, {1})

\* ------------------------------------------------------------ ThreadTimer
\* spec.md 4.1: start() requires !running, stop() requires running and adds
\* the elapsed cpu and wall time.
StartTimer(t) == [t EXCEPT !.running_ = TRUE]

StopTimer(t, d) ==
    [t EXCEPT !.running_ = FALSE,
              !.cpu_time_used_ = @ + d[1],
              !.real_time_used_ = @ + d[2]]

\* ---------------------------------------------------------- ThreadManager
\* spec.md 4.2: the barrier releases when running_threads_ parties have
\* arrived; the party that completes the phase opens the next one.
BarrierEnter(m) ==
    IF m.entered_ + 1 = m.running_threads_
    THEN [m EXCEPT !.entered_ = 0, !.phase_number_ = @ + 1]
    ELSE [m EXCEPT !.entered_ = @ + 1]

BarrierReleased(m, cp) == m.phase_number_ > cp

\* ------------------------------------------------------------------ State
\* spec.md 4.3: how many iterations have been consumed (batch_leftover_
\* stays 0: KeepRunningBatch is not used).
Iterations(s) == s.max_iterations - s.total_iterations_

\* A worker acts while the process lives and its manager exists.
Live(w) == cpc # "aborted" /\ manager # NoManager /\ w \in Workers

\* StartKeepRunning without the barrier of line 437.
StartKeepRunningNoBarrier(w) ==
    /\ Live(w) /\ wpc[w] = "pre"
    /\ ~st[w].started_ /\ ~st[w].finished_
    /\ st' = [st EXCEPT ![w] =
                [@ EXCEPT !.started_ = TRUE,
                          !.total_iterations_ =
                              IF st[w].error_occurred_ THEN 0
                              ELSE st[w].max_iterations]]
    /\ phase_cp' = [phase_cp EXCEPT ![w] = manager.phase_number_ - 1]
    /\ wpc' = [wpc EXCEPT ![w] = "start_barrier"]
    /\ UNCHANGED <<ctlVars, drvVars, cpc, manager, timer, calls, skip_calls>>

\* Lines 433-437: the first KeepRunning call enters StartKeepRunning and
\* arrives at the start barrier.
StartKeepRunning(w) ==
    /\ Live(w) /\ wpc[w] = "pre"
    /\ ~st[w].started_ /\ ~st[w].finished_
    /\ st' = [st EXCEPT ![w] =
                [@ EXCEPT !.started_ = TRUE,
                          !.total_iterations_ =
                              IF st[w].error_occurred_ THEN 0
                              ELSE st[w].max_iterations]]
    /\ phase_cp' = [phase_cp EXCEPT ![w] = manager.phase_number_]
    /\ manager' = BarrierEnter(manager)
    /\ wpc' = [wpc EXCEPT ![w] = "start_barrier"]
    /\ UNCHANGED <<ctlVars, drvVars, cpc, timer, calls, skip_calls>>

\* Line 438 once the barrier has released, then the rest of the first
\* KeepRunning call: it grants the first iteration, or goes on to
\* FinishKeepRunning when an error was signalled before the loop.
StartKeepRunningReturn(w) ==
    /\ Live(w) /\ wpc[w] = "start_barrier"
    /\ BarrierReleased(manager, phase_cp[w])
    /\ timer' = IF ~st[w].error_occurred_
                THEN [timer EXCEPT ![w] = StartTimer(@)]
                ELSE timer
    /\ IF ~st[w].error_occurred_ /\ st[w].total_iterations_ >= 1
       THEN /\ st' = [st EXCEPT ![w].total_iterations_ = @ - 1]
            /\ wpc' = [wpc EXCEPT ![w] = "run"]
       ELSE /\ st' = st
            /\ wpc' = [wpc EXCEPT ![w] = "finish"]
    /\ UNCHANGED <<ctlVars, drvVars, cpc, manager, phase_cp, calls, skip_calls>>

\* A later KeepRunning call with iterations left: consumes one.
KeepRunning(w) ==
    /\ Live(w) /\ wpc[w] = "run"
    /\ st[w].total_iterations_ >= 1
    /\ st' = [st EXCEPT ![w].total_iterations_ = @ - 1]
    /\ UNCHANGED <<ctlVars, drvVars, cpc, manager, wpc, timer, phase_cp, calls, skip_calls>>

\* FinishKeepRunning leaving before the barrier of line 449 when an error
\* occurred.
FinishKeepRunningNoBarrierOnError(w) ==
    /\ Live(w)
    /\ \/ wpc[w] = "finish"
       \/ wpc[w] = "run" /\ st[w].total_iterations_ = 0
    /\ st[w].started_ /\ (~st[w].finished_ \/ st[w].error_occurred_)
    /\ IF ~st[w].error_occurred_
       THEN /\ timer[w].running_
            /\ \E d \in TimerDeltas : timer' = [timer EXCEPT ![w] = StopTimer(@, d)]
       ELSE timer' = timer
    /\ st' = [st EXCEPT ![w] = [@ EXCEPT !.total_iterations_ = 0, !.finished_ = TRUE]]
    /\ IF st[w].error_occurred_
       THEN /\ phase_cp' = [phase_cp EXCEPT ![w] = manager.phase_number_ - 1]
            /\ manager' = manager
       ELSE /\ phase_cp' = [phase_cp EXCEPT ![w] = manager.phase_number_]
            /\ manager' = BarrierEnter(manager)
    /\ wpc' = [wpc EXCEPT ![w] = "stop_barrier"]
    /\ UNCHANGED <<ctlVars, drvVars, cpc, calls, skip_calls>>

\* Lines 441-449: the KeepRunning call that finds no iteration left stops
\* the timer (unless an error occurred) and arrives at the stop barrier.
FinishKeepRunning(w) ==
    /\ Live(w)
    /\ \/ wpc[w] = "finish"
       \/ wpc[w] = "run" /\ st[w].total_iterations_ = 0
    /\ st[w].started_ /\ (~st[w].finished_ \/ st[w].error_occurred_)
    /\ IF ~st[w].error_occurred_
       THEN /\ timer[w].running_
            /\ \E d \in TimerDeltas : timer' = [timer EXCEPT ![w] = StopTimer(@, d)]
       ELSE timer' = timer
    /\ st' = [st EXCEPT ![w] = [@ EXCEPT !.total_iterations_ = 0, !.finished_ = TRUE]]
    /\ phase_cp' = [phase_cp EXCEPT ![w] = manager.phase_number_]
    /\ manager' = BarrierEnter(manager)
    /\ wpc' = [wpc EXCEPT ![w] = "stop_barrier"]
    /\ UNCHANGED <<ctlVars, drvVars, cpc, calls, skip_calls>>

\* The stop barrier has released: KeepRunning returns false and the body
\* returns.
FinishKeepRunningReturn(w) ==
    /\ Live(w) /\ wpc[w] = "stop_barrier"
    /\ BarrierReleased(manager, phase_cp[w])
    /\ wpc' = [wpc EXCEPT ![w] = "returned"]
    /\ UNCHANGED <<ctlVars, drvVars, cpc, manager, st, timer, phase_cp, calls, skip_calls>>

\* Lines 399-403.
PauseTiming(w) ==
    /\ Live(w) /\ wpc[w] = "run"
    /\ st[w].started_ /\ ~st[w].finished_ /\ ~st[w].error_occurred_
    /\ timer[w].running_
    /\ calls < MaxBodyCalls
    /\ \E d \in TimerDeltas : timer' = [timer EXCEPT ![w] = StopTimer(@, d)]
    /\ calls' = calls + 1
    /\ UNCHANGED <<ctlVars, drvVars, cpc, manager, wpc, st, phase_cp, skip_calls>>

\* Lines 405-408.
ResumeTiming(w) ==
    /\ Live(w) /\ wpc[w] = "run"
    /\ st[w].started_ /\ ~st[w].finished_ /\ ~st[w].error_occurred_
    /\ ~timer[w].running_
    /\ timer' = [timer EXCEPT ![w] = StartTimer(@)]
    /\ UNCHANGED <<ctlVars, drvVars, cpc, manager, wpc, st, phase_cp, calls, skip_calls>>

\* SkipWithError storing every message: the last caller wins.
SkipWithErrorLastWins(w) ==
    /\ Live(w) /\ wpc[w] \in {"pre", "run"}
    /\ calls < MaxBodyCalls
    /\ calls' = calls + 1
    /\ \E msg \in Messages :
          /\ manager' = [manager EXCEPT !.results.error_message_ = msg,
                                        !.results.has_error_ = TRUE]
          /\ skip_calls' = Append(skip_calls, msg)
    /\ st' = [st EXCEPT ![w] = [@ EXCEPT !.error_occurred_ = TRUE,
                                         !.total_iterations_ = 0]]
    /\ \E d \in (IF timer[w].running_ THEN TimerDeltas ELSE {<<0, 0>>}) :
          timer' = IF timer[w].running_
                   THEN [timer EXCEPT ![w] = StopTimer(@, d)]
                   ELSE timer
    /\ UNCHANGED <<ctlVars, drvVars, cpc, wpc, phase_cp>>

\* SkipWithError without line 421: the timer is left as it is.
SkipWithErrorKeepsTimer(w) ==
    /\ Live(w) /\ wpc[w] \in {"pre", "run"}
    /\ calls < MaxBodyCalls
    /\ calls' = calls + 1
    /\ \E msg \in Messages :
          /\ manager' =
                IF manager.results.has_error_ = FALSE
                THEN [manager EXCEPT !.results.error_message_ = msg,
                                     !.results.has_error_ = TRUE]
                ELSE manager
          /\ skip_calls' = Append(skip_calls, msg)
    /\ st' = [st EXCEPT ![w] = [@ EXCEPT !.error_occurred_ = TRUE,
                                         !.total_iterations_ = 0]]
    /\ UNCHANGED <<ctlVars, drvVars, cpc, wpc, timer, phase_cp>>

\* Lines 410-422, called before the loop or inside it.
SkipWithError(w) ==
    /\ Live(w) /\ wpc[w] \in {"pre", "run"}
    /\ calls < MaxBodyCalls
    /\ calls' = calls + 1
    /\ \E msg \in Messages :
          /\ manager' =
                IF manager.results.has_error_ = FALSE
                THEN [manager EXCEPT !.results.error_message_ = msg,
                                     !.results.has_error_ = TRUE]
                ELSE manager
          /\ skip_calls' = Append(skip_calls, msg)
    /\ st' = [st EXCEPT ![w] = [@ EXCEPT !.error_occurred_ = TRUE,
                                         !.total_iterations_ = 0]]
    /\ \E d \in (IF timer[w].running_ THEN TimerDeltas ELSE {<<0, 0>>}) :
          timer' = IF timer[w].running_
                   THEN [timer EXCEPT ![w] = StopTimer(@, d)]
                   ELSE timer
    /\ UNCHANGED <<ctlVars, drvVars, cpc, wpc, phase_cp>>

\* Lines 424-426, with SetBytesProcessed and SetItemsProcessed (spec.md
\* 4.3: kept in the State until the worker merges): what one body reports
\* about its work, all of it local to the worker.
SetIterationTime(w) ==
    /\ Live(w) /\ wpc[w] = "run"
    /\ \E s \in ManualSteps, v \in ProcessedValues :
          /\ calls < MaxBodyCalls
          /\ calls' = calls + 1
          /\ timer' = [timer EXCEPT ![w].manual_time_used_ = @ + s]
          /\ st' = [st EXCEPT ![w] = [@ EXCEPT !.bytes_processed_ = v[1],
                                            !.items_processed_ = v[2]]]
    /\ UNCHANGED <<ctlVars, drvVars, cpc, manager, wpc, phase_cp, skip_calls>>

\* The body returns from inside its loop, without a KeepRunning call that
\* returned false.
BodyReturnEarly(w) ==
    /\ Live(w) /\ wpc[w] = "run"
    /\ calls < MaxBodyCalls
    /\ calls' = calls + 1
    /\ wpc' = [wpc EXCEPT ![w] = "returned"]
    /\ UNCHANGED <<ctlVars, drvVars, cpc, manager, st, timer, phase_cp, skip_calls>>

\* Lines 441-445 for a body that has paused the timer and not resumed it:
\* the check of line 442 and the check of PauseTiming pass, and StopTimer
\* is called on a timer that is not running (spec.md 4.1: stop() requires
\* running), which ends the process.
FinishKeepRunningPaused(w) ==
    /\ Live(w)
    /\ \/ wpc[w] = "finish"
       \/ wpc[w] = "run" /\ st[w].total_iterations_ = 0
    /\ st[w].started_ /\ ~st[w].finished_ /\ ~st[w].error_occurred_
    /\ ~timer[w].running_
    /\ wpc' = [wpc EXCEPT ![w] = "StopTimer"]
    /\ cpc' = "aborted"
    /\ UNCHANGED <<ctlVars, drvVars, manager, st, timer, phase_cp, calls, skip_calls>>

\* The body calls KeepRunning once more after it has returned false
\* (spec.md 4.3: no iteration is left, so FinishKeepRunning is entered).
\* Line 442 lets the call through when an error occurred, and
\* FinishKeepRunning runs again, up to the barrier; otherwise its check
\* ends the process.
KeepRunningAgain(w) ==
    /\ Live(w) /\ wpc[w] = "returned" /\ st[w].finished_
    /\ calls < MaxBodyCalls
    /\ calls' = calls + 1
    /\ IF st[w].started_ /\ (~st[w].finished_ \/ st[w].error_occurred_)
       THEN /\ st' = [st EXCEPT ![w] = [@ EXCEPT !.total_iterations_ = 0,
                                                 !.finished_ = TRUE]]
            /\ phase_cp' = [phase_cp EXCEPT ![w] = manager.phase_number_]
            /\ manager' = BarrierEnter(manager)
            /\ wpc' = [wpc EXCEPT ![w] = "stop_barrier"]
            /\ cpc' = cpc
       ELSE /\ cpc' = "aborted"
            /\ wpc' = [wpc EXCEPT ![w] = "FinishKeepRunning"]
            /\ UNCHANGED <<manager, st, phase_cp>>
    /\ UNCHANGED <<ctlVars, drvVars, timer, skip_calls>>

\* ------------------------------------------------------------ RunInThread
\* MergeResults assigning the iteration count instead of adding it.
MergeResultsOverwrite(res, s, t) ==
    [res EXCEPT !.iterations = Iterations(s),
                !.cpu_time_used = RatAddInt(@, t.cpu_time_used_),
                !.real_time_used = RatAddInt(@, t.real_time_used_),
                !.manual_time_used = RatAddInt(@, t.manual_time_used_),
                !.bytes_processed = @ + s.bytes_processed_,
                !.items_processed = @ + s.items_processed_,
                !.complexity_n = @ + s.complexity_n,
                !.counters = @ + s.counters]

\* Lines 192-202, under the manager mutex.
MergeResults(res, s, t) ==
    [res EXCEPT !.iterations = @ + Iterations(s),
                !.cpu_time_used = RatAddInt(@, t.cpu_time_used_),
                !.real_time_used = RatAddInt(@, t.real_time_used_),
                !.manual_time_used = RatAddInt(@, t.manual_time_used_),
                !.bytes_processed = @ + s.bytes_processed_,
                !.items_processed = @ + s.items_processed_,
                !.complexity_n = @ + s.complexity_n,
                !.counters = @ + s.counters]

\* Lines 189-202: the check after the body, then the merge.
CheckAndMerge(w) ==
    /\ Live(w) /\ wpc[w] = "returned"
    /\ IF Iterations(st[w]) >= st[w].max_iterations
       THEN /\ manager' = [manager EXCEPT !.results = MergeResults(@, st[w], timer[w])]
            /\ wpc' = [wpc EXCEPT ![w] = "merged"]
            /\ cpc' = cpc
       ELSE /\ cpc' = "aborted"
            /\ UNCHANGED <<manager, wpc>>
    /\ UNCHANGED <<ctlVars, drvVars, st, timer, phase_cp, calls, skip_calls>>

\* Line 203.
NotifyThreadComplete(w) ==
    /\ Live(w) /\ wpc[w] = "merged"
    /\ manager' = [manager EXCEPT !.alive_threads_ = @ - 1]
    /\ wpc' = [wpc EXCEPT ![w] = "done"]
    /\ UNCHANGED <<ctlVars, drvVars, cpc, st, timer, phase_cp, calls, skip_calls>>

\* RunInThread with a body that drives KeepRunning until it returns false.
WorkerLive(w) ==
    \/ StartKeepRunning(w)
    \/ StartKeepRunningReturn(w)
    \/ KeepRunning(w)
    \/ FinishKeepRunning(w)
    \/ FinishKeepRunningReturn(w)
    \/ PauseTiming(w)
    \/ ResumeTiming(w)
    \/ SkipWithError(w)
    \/ SetIterationTime(w)
    \/ CheckAndMerge(w)
    \/ NotifyThreadComplete(w)

\* RunInThread with any body.
Worker(w) ==
    \/ WorkerLive(w)
    \/ BodyReturnEarly(w)
    \/ FinishKeepRunningPaused(w)
    \/ KeepRunningAgain(w)

\* ----------------------------------------------------------- RunBenchmark
\* StartTrial with a manager whose Result keeps the error slot of the last
\* trial.
StartTrialKeepsError ==
    /\ cpc = "trial"
    /\ iters <= MaxSteppedIters
    /\ manager' =
          [NewManager(b.threads) EXCEPT
              !.results = IF results = NoResult THEN InitResult
                          ELSE [InitResult EXCEPT
                                   !.has_error_ = results.has_error_,
                                   !.error_message_ = results.error_message_]]
    /\ results' = NoResult
    /\ wpc' = [w \in Workers |-> "pre"]
    /\ st' = [w \in Workers |-> NewState(iters)]
    /\ timer' = [w \in Workers |-> NewTimer]
    /\ phase_cp' = [w \in Workers |-> 0]
    /\ calls' = 0
    /\ skip_calls' = <<>>
    /\ cpc' = "run"
    /\ UNCHANGED <<drvVars, b, FLAGS, iters, repetition_num, non_aggregates>>

\* Lines 244-249: a fresh manager, the pool threads, and the controller
\* itself as worker 0; each worker constructs its timer and its State.
StartTrial ==
    /\ cpc = "trial"
    /\ iters <= MaxSteppedIters
    /\ manager' = NewManager(b.threads)
    /\ results' = NoResult
    /\ wpc' = [w \in Workers |-> "pre"]
    /\ st' = [w \in Workers |-> NewState(iters)]
    /\ timer' = [w \in Workers |-> NewTimer]
    /\ phase_cp' = [w \in Workers |-> 0]
    /\ calls' = 0
    /\ skip_calls' = <<>>
    /\ cpc' = "run"
    /\ UNCHANGED <<drvVars, b, FLAGS, iters, repetition_num, non_aggregates>>

\* The controller going on to line 252 as soon as its own RunInThread
\* returns.
WaitForAllThreadsNoWait ==
    /\ cpc = "run"
    /\ wpc[0] = "done"
    /\ cpc' = "read"
    /\ UNCHANGED <<ctlVars, drvVars, manager, wpc, st, timer, phase_cp, calls, skip_calls>>

\* Lines 250-251, once RunInThread(0) has returned: the completion latch,
\* then the join of every pool thread.
WaitForAllThreads ==
    /\ cpc = "run"
    /\ wpc[0] = "done"
    /\ manager.alive_threads_ = 0
    /\ \A w \in Workers : wpc[w] = "done"
    /\ cpc' = "read"
    /\ UNCHANGED <<ctlVars, drvVars, manager, wpc, st, timer, phase_cp, calls, skip_calls>>

\* Lines 252-260: the copy under the mutex, the manager's end, the means.
ReadResults ==
    /\ cpc = "read"
    /\ results' = NormalizeResults(manager.results, b.threads)
    /\ manager' = NoManager
    /\ cpc' = "decide"
    /\ UNCHANGED <<drvVars, b, FLAGS, iters, repetition_num, non_aggregates,
                   wpc, st, timer, phase_cp, calls, skip_calls>>

\* Lines 335-347: RunBenchmark's way out for instance bb, whose flags are
\* in rr, whose runs are `runs`, with family vector creports and log lg.
ReturnRunResults(bb, rr, runs, creports, lg) ==
    IF FitsFamily(bb)
    THEN \E rows \in ComputeBigO(creports) :
            /\ run_results' =
                  [rr EXCEPT !.aggregates_only = ComputeStats(bb, runs) \o rows]
            /\ complexity_reports' = <<>>
            /\ log' = Append(lg, [op |-> "ComputeBigO", reports |-> creports])
    ELSE /\ run_results' = [rr EXCEPT !.aggregates_only = ComputeStats(bb, runs)]
         /\ complexity_reports' = creports
         /\ log' = lg

\* Lines 294-305: the calls of the memory probe of a trial of `it`
\* iterations, when a memory manager is registered.
MemoryProbe(it) ==
    IF env.memory_manager
    THEN <<[op |-> "Start"],
           [op |-> "RunInThread", iters |-> Min(16, it), threads |-> 1],
           [op |-> "Stop"]>>
    ELSE <<>>

\* PushFamily keeping the reports of errored trials as well.
PushFamilyAlsoErrors(bb, creports, report) ==
    IF bb.complexity # "oNone" THEN Append(creports, report) ELSE creports

\* Lines 309-310.
PushFamily(bb, creports, report) ==
    IF ~report.error_occurred /\ bb.complexity # "oNone"
    THEN Append(creports, report)
    ELSE creports

\* Lines 291-311 as the log sees them: the probe, then the push_back.
ReportTrial(it, report) ==
    MemoryProbe(it) \o <<[op |-> "push_back", instance |-> b, report |-> report]>>

\* Lines 265-347: report the trial (after the memory probe, when a memory
\* manager is registered) and leave the retry loop, or grow iters; after
\* the last repetition, the statistics and the family's fit.
Decide ==
    /\ cpc = "decide"
    /\ LET seconds == SelectSeconds(b, results)
           min_time == ResolveMinTime(b, FLAGS)
           should_report ==
               ShouldReport(repetition_num, has_explicit_iteration_count,
                            results, iters, seconds, min_time, b.use_manual_time)
           memory_iterations == IF env.memory_manager THEN Min(16, iters) ELSE 0
       IN  IF should_report
           THEN \E memory_result \in MemoryResults :
                LET report == CreateRunReport(b, results, memory_iterations,
                                              memory_result, seconds)
                    pushed == PushFamily(b, complexity_reports, report)
                IN  /\ non_aggregates' = Append(non_aggregates, report)
                    /\ repetition_num' = repetition_num + 1
                    /\ iters' = iters
                    /\ IF repetition_num + 1 < Repeats
                       THEN /\ cpc' = "trial"
                            /\ complexity_reports' = pushed
                            /\ log' = log \o ReportTrial(iters, report)
                            /\ UNCHANGED run_results
                       ELSE /\ cpc' = "done"
                            /\ ReturnRunResults(b, run_results, non_aggregates',
                                                pushed,
                                                log \o ReportTrial(iters, report))
           ELSE /\ iters' = NextIters(iters, Multiplier(seconds, min_time))
                /\ cpc' = "trial"
                /\ UNCHANGED <<non_aggregates, repetition_num,
                               complexity_reports, run_results, log>>
    /\ UNCHANGED <<b, FLAGS, results, manager, wpc, st, timer, phase_cp,
                   calls, skip_calls, benchmarks, env>>

Controller ==
    \/ StartTrial
    \/ WaitForAllThreads
    \/ ReadResults
    \/ Decide

Next ==
    \/ Controller
    \/ \E w \in 0 .. (MaxThreads - 1) : Worker(w)

Spec == Init /\ [][Next]_vars

\* Trials whose bodies all drive KeepRunning until it returns false. The
\* controller and the pool threads are threads of the operating system:
\* as long as one of them can take a step, one of them does.
NextLive ==
    \/ Controller
    \/ \E w \in 0 .. (MaxThreads - 1) : WorkerLive(w)

LiveSpec ==
    /\ Init
    /\ [][NextLive]_vars
    /\ WF_vars(NextLive)

\* The instances whose two repetitions are followed thread by thread.
RepInstances ==
    [name : {"BM"},
     threads : {1, 2},
     iterations : {0},
     repetitions : {2},
     min_time : {0},
     use_manual_time : {FALSE},
     use_real_time : {FALSE},
     complexity : {"oNone"},
     complexity_n : {0},
     last_benchmark_instance : {FALSE},
     aggregation_report_mode : {{}},
     statistics : {<<"mean">>}]

InitRep == InitWith(RepInstances, {30}, {1})

SpecRep == InitRep /\ [][Next]_vars

\* ------------------------------------------- RunBenchmark, trial by trial
\* The instances whose retry loop is followed with each trial as one step.
CtlInstances ==
    [name : {"BM"},
     threads : {1, 2},
     iterations : {0, 3},
     repetitions : {0, 2},
     min_time : {0, 10},
     use_manual_time : BOOLEAN,
     use_real_time : BOOLEAN,
     complexity : {"oNone"},
     complexity_n : {0},
     last_benchmark_instance : {FALSE},
     aggregation_report_mode : {{}},
     statistics : {<<"mean">>}]

\* A trial is given a time just below min_time while iters is at most this.
MaxNearIters == 3

\* <<cpu, real, manual>> as every worker of a trial accumulates them.
TrialTimes ==
    {<<0, 0, 0>>, <<14, 14, 14>>, <<20, 20, 20>>,
     <<0, 100, 0>>, <<0, 0, 20>>, <<20, 0, 0>>}
NearTimes == {<<19, 19, 19>>}

\* What the workers of a trial of `it` iterations can leave behind.
TrialOutcomes(it) ==
    [times : TrialTimes \cup (IF it <= MaxNearIters THEN NearTimes ELSE {}),
     error : {FALSE}, complexity_n : {0}]
    \cup [times : {<<0, 0, 0>>, <<14, 14, 14>>}, error : {TRUE},
          complexity_n : {0}]

RECURSIVE MergeAll(_, _, _, _)
\* The merges of n workers that all end in State s with timer t.
MergeAll(res, n, s, t) ==
    IF n = 0 THEN res ELSE MergeAll(MergeResults(res, s, t), n - 1, s, t)

\* The manager's Result once every worker of a trial has run RunInThread to
\* its end: SkipWithError has set the error slot, each worker has merged.
TrialResult(o, threads, it) ==
    LET s == [NewState(it) EXCEPT !.started_ = TRUE, !.finished_ = TRUE,
                                  !.error_occurred_ = o.error,
                                  !.complexity_n = o.complexity_n]
        t == [NewTimer EXCEPT !.cpu_time_used_ = o.times[1],
                              !.real_time_used_ = o.times[2],
                              !.manual_time_used_ = o.times[3]]
        r0 == IF o.error
              THEN [InitResult EXCEPT !.has_error_ = TRUE, !.error_message_ = "bad"]
              ELSE InitResult
    IN  MergeAll(r0, threads, s, t)

\* Lines 244-260 as one step: the trial is run and its Result read.
RunTrial ==
    /\ cpc = "trial"
    /\ \E o \in TrialOutcomes(iters) :
          results' = NormalizeResults(TrialResult(o, b.threads, iters), b.threads)
    /\ cpc' = "decide"
    /\ UNCHANGED <<drvVars, b, FLAGS, iters, repetition_num, non_aggregates,
                   manager, wpc, st, timer, phase_cp, calls, skip_calls>>

InitCtl == InitWith(CtlInstances, {20}, {1})

\* -------------------------------------------------------- RunBenchmarks
\* Lines 223-224 for an instance that is not yet b.
RepeatsOf(bb, flags) ==
    IF bb.repetitions # 0 THEN bb.repetitions ELSE flags.benchmark_repetitions

\* Lines 501-502: what the report lambda asserts for a reporter.
ReportAssertion(report_aggregates_only) ==
    ~(report_aggregates_only /\ run_results.aggregates_only = <<>>)

\* ReportCalls emitting non_aggregates whatever the reporter's flag.
ReportCallsIgnoringFlag(reporter, report_aggregates_only) ==
    <<[op |-> "ReportRuns", reporter |-> reporter, runs |-> non_aggregates]>>
    \o (IF run_results.aggregates_only # <<>>
        THEN <<[op |-> "ReportRuns", reporter |-> reporter,
                runs |-> run_results.aggregates_only]>>
        ELSE <<>>)

\* Lines 503-506: the calls the report lambda makes on a reporter.
ReportCalls(reporter, report_aggregates_only) ==
    (IF ~report_aggregates_only
     THEN <<[op |-> "ReportRuns", reporter |-> reporter, runs |-> non_aggregates]>>
     ELSE <<>>)
    \o (IF run_results.aggregates_only # <<>>
        THEN <<[op |-> "ReportRuns", reporter |-> reporter,
                runs |-> run_results.aggregates_only]>>
        ELSE <<>>)

\* Lines 496-514, once RunBenchmark has returned: the display reporter,
\* then the file reporter if there is one. An assert that does not hold
\* ends the process in a build that keeps asserts; a build with NDEBUG
\* does not evaluate it.
Report ==
    /\ cpc = "done"
    /\ LET display == ReportCalls("display", run_results.display_report_aggregates_only)
           file == ReportCalls("file", run_results.file_report_aggregates_only)
       IN  IF ~env.NDEBUG
              /\ ~ReportAssertion(run_results.display_report_aggregates_only)
           THEN cpc' = "aborted" /\ log' = log
           ELSE IF ~env.file_reporter
           THEN cpc' = "next" /\ log' = log \o display
           ELSE IF ~env.NDEBUG
                   /\ ~ReportAssertion(run_results.file_report_aggregates_only)
           THEN cpc' = "aborted" /\ log' = log \o display
           ELSE cpc' = "next" /\ log' = log \o display \o file
    /\ UNCHANGED <<b, FLAGS, iters, repetition_num, results, non_aggregates,
                   manager, wpc, st, timer, phase_cp, calls, skip_calls,
                   benchmarks, complexity_reports, run_results, env>>

\* Line 495 going on to the next instance, and RunBenchmark up to line 239.
NextInstance ==
    /\ cpc = "next"
    /\ benchmarks # <<>>
    /\ LET bb == Head(benchmarks)
           repeats == RepeatsOf(bb, FLAGS)
           it == IF bb.iterations # 0 THEN bb.iterations ELSE 1
       IN  /\ b' = bb
           /\ benchmarks' = Tail(benchmarks)
           /\ iters' = it
           /\ repetition_num' = 0
           /\ results' = NoResult
           /\ non_aggregates' = <<>>
           /\ manager' = NoManager
           /\ wpc' = [w \in 0 .. (bb.threads - 1) |-> "idle"]
           /\ st' = [w \in 0 .. (bb.threads - 1) |-> NewState(it)]
           /\ timer' = [w \in 0 .. (bb.threads - 1) |-> NewTimer]
           /\ phase_cp' = [w \in 0 .. (bb.threads - 1) |-> 0]
           /\ calls' = 0
           /\ skip_calls' = <<>>
           /\ IF 0 < repeats
              THEN /\ cpc' = "trial"
                   /\ run_results' = NewRunResults(bb, FLAGS, repeats)
                   /\ UNCHANGED <<complexity_reports, log>>
              ELSE /\ cpc' = "done"
                   /\ ReturnRunResults(bb, NewRunResults(bb, FLAGS, repeats),
                                       <<>>, complexity_reports, log)
    /\ UNCHANGED <<FLAGS, env>>

\* Lines 517-518, after the last instance.
Finalize ==
    /\ cpc = "next"
    /\ benchmarks = <<>>
    /\ cpc' = "end"
    /\ log' = log \o <<[op |-> "Finalize", reporter |-> "display"]>>
                  \o (IF env.file_reporter
                      THEN <<[op |-> "Finalize", reporter |-> "file"]>>
                      ELSE <<>>)
    /\ UNCHANGED <<b, FLAGS, iters, repetition_num, results, non_aggregates,
                   manager, wpc, st, timer, phase_cp, calls, skip_calls,
                   benchmarks, complexity_reports, run_results, env>>


NextCtl ==
    \/ RunTrial
    \/ Decide

SpecCtl == InitCtl /\ [][NextCtl]_vars

\* The retry loop when every trial terminates: RunBenchmark is sequential
\* code, so the controller takes its next step as long as it has one.
LiveCtlInstances ==
    [name : {"BM"},
     threads : {1},
     iterations : {0, 3},
     repetitions : {2},
     min_time : {0, 10},
     use_manual_time : BOOLEAN,
     use_real_time : {FALSE},
     complexity : {"oNone"},
     complexity_n : {0},
     last_benchmark_instance : {FALSE},
     aggregation_report_mode : {{}},
     statistics : {<<"mean">>}]

InitLiveCtl == InitWith(LiveCtlInstances, {20}, {1})

LiveCtl ==
    /\ InitLiveCtl
    /\ [][NextCtl]_vars
    /\ WF_vars(NextCtl)

\* The instances RunBenchmarks is followed with: one thread, the flag's
\* min_time, cpu time as the basis.
DriverInstances(its, reps, complexities, lasts, modes) ==
    [name : {"BM"},
     threads : {1},
     iterations : its,
     repetitions : reps,
     min_time : {0},
     use_manual_time : {FALSE},
     use_real_time : {FALSE},
     complexity : complexities,
     complexity_n : {8},
     last_benchmark_instance : lasts,
     aggregation_report_mode : modes,
     statistics : {<<"mean">>}]

DriverFlags(reps, only) ==
    [benchmark_min_time : {20},
     benchmark_repetitions : reps,
     benchmark_report_aggregates_only : only,
     benchmark_display_aggregates_only : only]

\* RunBenchmarks is given at most this many instances.
MaxInstances == 2

\* The lists of 1 to n elements of S.
Lists(S, n) == UNION {[1 .. k -> S] : k \in 1 .. n}

\* One instance, every aggregation report mode and flag, with and without
\* a file reporter, with and without asserts.
HandOffConfigs ==
    [benchmarks : Lists(DriverInstances({1}, {0, 2}, {"oNone", "oN"}, {TRUE},
                                        SUBSET {"display", "file"}), 1),
     FLAGS : DriverFlags({0, 1}, BOOLEAN),
     env : [memory_manager : {FALSE}, file_reporter : BOOLEAN, NDEBUG : BOOLEAN]]

\* Families of instances, with and without an asymptotic complexity.
FamilyConfigs ==
    [benchmarks : Lists(DriverInstances({1}, {0}, {"oNone", "oN"}, BOOLEAN, {{}}),
                        MaxInstances),
     FLAGS : DriverFlags({1, 2}, {FALSE}),
     env : [memory_manager : {FALSE}, file_reporter : {FALSE}, NDEBUG : {TRUE}]]

\* Instances with and without an iteration count of their own.
ProbeInstances == DriverInstances({0, 1}, {0}, {"oNone"}, {FALSE}, {{}})

\* One instance, or the same instance twice, with and without a memory
\* manager.
ProbeConfigs ==
    [benchmarks : UNION {{<<x>>, <<x, x>>} : x \in ProbeInstances},
     FLAGS : DriverFlags({1, 2}, {FALSE}),
     env : [memory_manager : BOOLEAN, file_reporter : {FALSE}, NDEBUG : {TRUE}]]

\* What the workers of a trial of instance bb can leave behind: the body
\* declares the instance's complexity_n; the trials of ProbeInstances are
\* given two different times.
DriverOutcomes(bb) ==
    [times : {<<20, 20, 20>>} \cup (IF bb \in ProbeInstances THEN {<<0, 0, 0>>} ELSE {}),
     error : {FALSE}, complexity_n : {bb.complexity_n}]
    \cup [times : {<<0, 0, 0>>}, error : {TRUE}, complexity_n : {bb.complexity_n}]

\* Lines 244-260 as one step, for the instances of RunBenchmarks.
RunDriverTrial ==
    /\ cpc = "trial"
    /\ \E o \in DriverOutcomes(b) :
          results' = NormalizeResults(TrialResult(o, b.threads, iters), b.threads)
    /\ cpc' = "decide"
    /\ UNCHANGED <<drvVars, b, FLAGS, iters, repetition_num, non_aggregates,
                   manager, wpc, st, timer, phase_cp, calls, skip_calls>>

InitRun ==
    \E c \in HandOffConfigs \cup FamilyConfigs \cup ProbeConfigs :
       InitDriver({c.benchmarks}, {c.FLAGS}, {c.env})

NextRun ==
    \/ RunDriverTrial
    \/ Decide
    \/ Report
    \/ NextInstance
    \/ Finalize

SpecRun == InitRun /\ [][NextRun]_vars

\* ------------------------------------------------- the growth of iters
\* Numbers beyond 32 bits, as the doubles of lines 317-331 hold them:
\* hi * 2^16 + lo, 0 <= lo < 2^16.
WideBase == 2 ^ 16
Wide(x) == [hi |-> x \div WideBase, lo |-> x % WideBase]
WideTimes(u, k) ==
    [hi |-> k * u.hi + (k * u.lo) \div WideBase, lo |-> (k * u.lo) % WideBase]
WidePlus(u, i) ==
    [hi |-> u.hi + (u.lo + i) \div WideBase, lo |-> (u.lo + i) % WideBase]
WideLE(u, v) == u.hi < v.hi \/ (u.hi = v.hi /\ u.lo <= v.lo)
WideMax(u, v) == IF WideLE(u, v) THEN v ELSE u

\* Lines 317-326: next_iters, the double before the clamp of line 327 and
\* the cast of line 331, as the fraction num / d.
NextItersDouble(it, secs, min_time) ==
    LET m == Multiplier(secs, min_time)
    IN  [num |-> WideMax(WideTimes(Wide(it), m.n), WideTimes(Wide(it + 1), m.d)),
         d |-> m.d]

\* The instances whose retries are followed with trial times at a tenth of
\* min_time and just above it.
GrowInstances ==
    [name : {"BM"},
     threads : {1},
     iterations : {0},
     repetitions : {1},
     min_time : {0},
     use_manual_time : {FALSE},
     use_real_time : {FALSE},
     complexity : {"oNone"},
     complexity_n : {0},
     last_benchmark_instance : {FALSE},
     aggregation_report_mode : {{}},
     statistics : {<<"mean">>}]

\* <<cpu, real, manual>> of a trial. With min_time 30: 3 is a tenth of it
\* (multiplier 14, capped at 10), 4 is just above (multiplier 10.5).
GrowTimes == {<<0, 0, 0>>, <<3, 3, 3>>, <<4, 4, 4>>, <<30, 30, 30>>}

\* Lines 244-260 as one step, for GrowInstances.
RunGrowTrial ==
    /\ cpc = "trial"
    /\ \E o \in [times : GrowTimes, error : {FALSE}, complexity_n : {0}] :
          results' = NormalizeResults(TrialResult(o, b.threads, iters), b.threads)
    /\ cpc' = "decide"
    /\ UNCHANGED <<drvVars, b, FLAGS, iters, repetition_num, non_aggregates,
                   manager, wpc, st, timer, phase_cp, calls, skip_calls>>

InitGrow == InitWith(GrowInstances, {30}, {1})

NextGrow ==
    \/ RunGrowTrial
    \/ Decide

SpecGrow == InitGrow /\ [][NextGrow]_vars


\* ------------------------------------- the memory probe, thread by thread
\* What a body passes to SetLabel, and what it gives its counter.
Labels == {"lbl"}
CounterValues == {5}

\* Lines 428-431, under the manager mutex.
SetLabel(w) ==
    /\ Live(w) /\ wpc[w] \in {"pre", "run"}
    /\ calls < MaxBodyCalls
    /\ calls' = calls + 1
    /\ \E label \in Labels :
          manager' = [manager EXCEPT !.results.report_label_ = label]
    /\ UNCHANGED <<ctlVars, drvVars, cpc, wpc, st, timer, phase_cp, skip_calls>>

\* The body assigns a user counter of its State (state.counters, line 366),
\* which stays in the State until the worker merges (line 201).
SetCounter(w) ==
    /\ Live(w) /\ wpc[w] \in {"pre", "run"}
    /\ calls < MaxBodyCalls
    /\ calls' = calls + 1
    /\ \E v \in CounterValues : st' = [st EXCEPT ![w].counters = v]
    /\ UNCHANGED <<ctlVars, drvVars, cpc, manager, wpc, timer, phase_cp, skip_calls>>

\* Lines 291-294: the trial at "decide" is reported and a memory manager is
\* registered.
ProbeDue ==
    /\ cpc = "decide"
    /\ env.memory_manager
    /\ ShouldReport(repetition_num, has_explicit_iteration_count, results, iters,
                    SelectSeconds(b, results), ResolveMinTime(b, FLAGS),
                    b.use_manual_time)

\* The Result a manager holding the Result `res` of the measured trial
\* would hold after the probe run had merged into it.
MeasuredResultsClobbered(res, probe) == NormalizeResults(probe.results, 1)

\* Lines 252-257 and 299-308: CreateRunReport is given `results`, the copy
\* of line 255 of the measured trial's Result, not the Result of the
\* probe's manager, which line 302 destroys.
MeasuredResults(res, probe) == res

\* Lines 297-300 up to the body: memory_manager->Start(), a manager of its
\* own for one thread, and RunInThread in the controller's thread, with a
\* timer and a State of its own for min(16, iters) iterations.
StartProbe ==
    /\ ProbeDue
    /\ cpc' = "probe"
    /\ manager' = NewManager(1)
    /\ wpc' = [wpc EXCEPT ![0] = "pre"]
    /\ st' = [st EXCEPT ![0] = NewState(Min(16, iters))]
    /\ timer' = [timer EXCEPT ![0] = NewTimer]
    /\ phase_cp' = [phase_cp EXCEPT ![0] = 0]
    /\ calls' = 0
    /\ skip_calls' = <<>>
    /\ log' = log \o SubSeq(MemoryProbe(iters), 1, 2)
    /\ UNCHANGED <<ctlVars, benchmarks, complexity_reports, run_results, env>>

\* Lines 301-312, and lines 335-347 after the last repetition: the probe
\* run is over, its manager is destroyed, the memory manager is stopped
\* and the trial is reported.
FinishProbe ==
    /\ cpc = "probe"
    /\ manager.alive_threads_ = 0
    /\ manager' = NoManager
    /\ \E memory_result \in MemoryResults :
          LET measured == MeasuredResults(results, manager)
              report == CreateRunReport(b, measured, Min(16, iters), memory_result,
                                        SelectSeconds(b, measured))
              pushed == PushFamily(b, complexity_reports, report)
              lg == log \o <<[op |-> "Stop"],
                             [op |-> "push_back", instance |-> b, report |-> report]>>
          IN  /\ non_aggregates' = Append(non_aggregates, report)
              /\ repetition_num' = repetition_num + 1
              /\ IF repetition_num + 1 < Repeats
                 THEN /\ cpc' = "trial"
                      /\ complexity_reports' = pushed
                      /\ log' = lg
                      /\ UNCHANGED run_results
                 ELSE /\ cpc' = "done"
                      /\ ReturnRunResults(b, run_results, non_aggregates', pushed, lg)
    /\ UNCHANGED <<b, FLAGS, iters, results, wpc, st, timer, phase_cp, calls,
                   skip_calls, benchmarks, env>>

\* The instances whose memory probe is followed thread by thread: with an
\* iteration count of their own, and without.
ProbedInstances ==
    [name : {"BM"},
     threads : {1},
     iterations : {0, 1},
     repetitions : {1},
     min_time : {0},
     use_manual_time : {FALSE},
     use_real_time : {FALSE},
     complexity : {"oNone"},
     complexity_n : {0},
     last_benchmark_instance : {FALSE},
     aggregation_report_mode : {{}},
     statistics : {<<"mean">>}]

InitProbe ==
    InitDriver({<<x>> : x \in ProbedInstances},
               [benchmark_min_time : {30}, benchmark_repetitions : {1},
                benchmark_report_aggregates_only : {FALSE},
                benchmark_display_aggregates_only : {FALSE}],
               {[memory_manager |-> TRUE, file_reporter |-> FALSE, NDEBUG |-> FALSE]})

NextProbe ==
    \/ StartTrial
    \/ WaitForAllThreads
    \/ ReadResults
    \/ ~ProbeDue /\ Decide
    \/ StartProbe
    \/ FinishProbe
    \/ \E w \in {0} : Worker(w) \/ SetLabel(w) \/ SetCounter(w)

SpecProbe == InitProbe /\ [][NextProbe]_vars


\* ------------------------------------------------------------- properties
RECURSIVE SumTo(_, _)
\* f[0] + ... + f[n]
SumTo(f, n) == IF n < 0 THEN 0 ELSE f[n] + SumTo(f, n - 1)

SumWorkers(f) == SumTo(f, b.threads - 1)

Merged(w) == wpc[w] \in {"merged", "done"}
\* The controller has copied the Result of the trial out (line 255).
ResultRead == results # NoResult
\* The state Decide leaves.
Decided == ResultRead /\ cpc \in {"trial", "done"}
LastReport == non_aggregates[Len(non_aggregates)]

\* C1: whenever a worker's timer goes from stopped to running, every worker
\* of the trial has already entered StartKeepRunning's barrier rendezvous
\* (started_ is set on the way in).
C1_TimerStartsAfterBarrier ==
    [][\A w \in 0 .. (MaxThreads - 1) :
          (w \in Workers /\ ~timer[w].running_ /\ timer'[w].running_)
              => \A v \in Workers : st[v].started_]_vars

C1_Witness ==
    /\ b.threads >= 2
    /\ \E w \in Workers : timer[w].running_ /\ st[w].total_iterations_ = 0
    /\ \E v \in Workers : wpc[v] = "start_barrier"

\* C2: once the controller holds its copy of the Result, every worker of the
\* trial has finished its merge (so no merge can follow the read).
C2_ReadAfterAllMerges ==
    ResultRead => \A w \in Workers : Merged(w)

C2_Witness ==
    /\ ResultRead /\ b.threads >= 2
    /\ results.iterations = b.threads * iters

\* C3: when every body drives KeepRunning until it returns false, a trial
\* that has started always gets to the point where every worker has passed
\* the stop barrier, merged and notified, and the controller's wait and
\* joins have returned, whatever mix of workers signalled an error.
C3_TrialCompletes ==
    (cpc = "run") ~>
        (cpc = "read" /\ \A w \in Workers : wpc[w] = "done" /\ st[w].finished_)

C3_Witness ==
    /\ cpc = "read" /\ b.threads >= 2
    /\ \A w \in Workers : wpc[w] = "done" /\ st[w].finished_
    /\ \E w \in Workers : st[w].error_occurred_
    /\ \E w \in Workers : ~st[w].error_occurred_

\* The clauses of lines 280-288, for the trial whose Result the controller
\* holds.
ReportClause ==
    \/ results.has_error_
    \/ has_explicit_iteration_count
    \/ iters >= kMaxIterations
    \/ RatGE(SelectSeconds(b, results), RatInt(ResolveMinTime(b, FLAGS)))
    \/ (RatGE(results.real_time_used, RatInt(5 * ResolveMinTime(b, FLAGS)))
          /\ ~b.use_manual_time)
    \/ repetition_num > 0

\* C4: a trial for which one of the clauses holds (an error, an explicit
\* iteration count, the cap, seconds >= min_time, real time >= 5 * min_time
\* without manual time, a repetition after the first) yields the Run record
\* of its repetition, and the repetition ends with it: iters is not grown
\* and the next trial, if any, belongs to the next repetition.
C4_ShouldReportCoverage ==
    [][(cpc = "decide" /\ ReportClause)
          => /\ non_aggregates' =
                    Append(non_aggregates,
                           CreateRunReport(b, results, 0, NoResult,
                                           SelectSeconds(b, results)))
             /\ repetition_num' = repetition_num + 1
             /\ iters' = iters
             /\ cpc' = IF repetition_num' < Repeats THEN "trial" ELSE "done"]_vars

C4_Witness ==
    /\ cpc = "done" /\ ResultRead /\ Len(non_aggregates) = 1
    /\ ~results.has_error_ /\ ~has_explicit_iteration_count
    /\ 1 < iters /\ iters < kMaxIterations
    /\ ~RatGE(SelectSeconds(b, results), RatInt(ResolveMinTime(b, FLAGS)))
    /\ RatGE(results.real_time_used, RatInt(5 * ResolveMinTime(b, FLAGS)))

\* C5: when a trial is not reported and the controller retries within the
\* repetition, the next trial runs at least one iteration more than the
\* last, and at most kMaxIterations.
C5_ItersGrowWithinCap ==
    [][(cpc = "decide" /\ cpc' = "trial" /\ repetition_num' = repetition_num)
          => (iters + 1 <= iters' /\ iters' <= kMaxIterations)]_vars

C5_Witness ==
    /\ cpc = "trial" /\ ResultRead
    /\ repetition_num = 0 /\ non_aggregates = <<>>
    /\ ~has_explicit_iteration_count
    /\ iters = kMaxIterations

\* C6 as stated: the Result read by the controller has the error flag set and
\* carries the first non-empty message passed to SkipWithError in the trial.
FirstNonEmpty(seq) ==
    IF \E i \in 1 .. Len(seq) : seq[i] # ""
    THEN seq[CHOOSE i \in 1 .. Len(seq) :
                 seq[i] # "" /\ \A j \in 1 .. (i - 1) : seq[j] = ""]
    ELSE ""

C6_FirstNonEmptyMessage ==
    (ResultRead /\ skip_calls # <<>>)
        => results.has_error_ /\ results.error_message_ = FirstNonEmpty(skip_calls)

\* C6 amended: the Result read by the controller has the error flag set and
\* carries the message of the first SkipWithError call of the trial (in mutex
\* order), whether that message is empty or not.
C6_FirstMessage ==
    (ResultRead /\ skip_calls # <<>>)
        => results.has_error_ /\ results.error_message_ = skip_calls[1]

C6_Witness ==
    /\ ResultRead /\ b.threads >= 2
    /\ \A w \in Workers : st[w].error_occurred_
    /\ Len(skip_calls) = 2 /\ skip_calls[1] = "bad" /\ skip_calls[2] = ""

\* C7: a worker that signalled an error passes the check of line 189 when
\* its body has returned, whether KeepRunning returned false or the body left
\* its loop directly; and a trial in which SkipWithError was called is
\* reported at once, with the error flag and the message, iters not grown.
C7_SkipPathReported ==
    /\ \A w \in Workers :
          (st[w].error_occurred_ /\ wpc[w] = "returned")
              => Iterations(st[w]) >= st[w].max_iterations
    /\ (Decided /\ skip_calls # <<>>)
          => /\ cpc = "done"
             /\ Len(non_aggregates) = 1
             /\ LastReport.error_occurred
             /\ LastReport.error_message = skip_calls[1]
             /\ iters = st[0].max_iterations

C7_Witness ==
    /\ cpc = "done" /\ Len(non_aggregates) = 1
    /\ LastReport.error_occurred /\ LastReport.error_message = "bad"
    /\ \E w \in Workers : st[w].error_occurred_ /\ ~st[w].finished_
    /\ RatGT(RatInt(FLAGS.benchmark_min_time), results.cpu_time_used)

\* C8: a Run record without error carries the sum of the workers'
\* iterations(), which is at least the trial's iters.
C8_IterationsSum ==
    (Decided /\ cpc = "done" /\ ~LastReport.error_occurred)
        => /\ LastReport.iterations =
                 SumWorkers([w \in Workers |-> Iterations(st[w])])
           /\ LastReport.iterations >= st[0].max_iterations
           /\ iters = st[0].max_iterations

C8_Witness ==
    /\ Decided /\ cpc = "done" /\ ~LastReport.error_occurred
    /\ b.threads >= 2 /\ iters = 2

\* C9: in the Result the controller holds after normalisation, the cpu time
\* is the sum of the workers' cpu accumulators, real and manual time are the
\* sums divided by the thread count, bytes and items are the sums.
C9_TimeAggregation ==
    ResultRead =>
        /\ results.cpu_time_used =
              RatInt(SumWorkers([w \in Workers |-> timer[w].cpu_time_used_]))
        /\ results.real_time_used =
              Rat(SumWorkers([w \in Workers |-> timer[w].real_time_used_]), b.threads)
        /\ results.manual_time_used =
              Rat(SumWorkers([w \in Workers |-> timer[w].manual_time_used_]), b.threads)
        /\ results.bytes_processed =
              SumWorkers([w \in Workers |-> st[w].bytes_processed_])
        /\ results.items_processed =
              SumWorkers([w \in Workers |-> st[w].items_processed_])

C9_Witness ==
    /\ ResultRead /\ b.threads >= 2
    /\ timer[0].cpu_time_used_ # timer[1].cpu_time_used_
    /\ timer[0].manual_time_used_ # timer[1].manual_time_used_
    /\ results.cpu_time_used.n > 0 /\ results.real_time_used.n > 0
    /\ results.manual_time_used.d > 1 /\ results.bytes_processed > 0

\* C10: for an instance with an explicit iteration count n, iters is n and
\* stays n, and every trial is reported and ends its repetition, whatever
\* its times and whether or not a worker signalled an error.
C10_ExplicitIterations ==
    [][has_explicit_iteration_count
          => /\ iters = b.iterations /\ iters' = iters
             /\ (cpc = "decide"
                   => /\ Len(non_aggregates') = Len(non_aggregates) + 1
                      /\ repetition_num' = repetition_num + 1)]_vars

C10_Witness ==
    /\ has_explicit_iteration_count /\ cpc = "done"
    /\ repetition_num = 2 /\ Len(non_aggregates) = 2
    /\ ~non_aggregates[1].error_occurred
    /\ non_aggregates[1].iterations = b.threads * b.iterations
    /\ non_aggregates[1].cpu_accumulated_time = RatInt(0)
    /\ non_aggregates[1].real_accumulated_time = RatInt(0)
    /\ non_aggregates[2].error_occurred

\* The Run record a step appends for the first repetition of a one-thread
\* instance with automatic iteration count whose trial had no error.
FirstAutoRun ==
    /\ cpc = "decide" /\ repetition_num = 0
    /\ b.threads = 1 /\ ~has_explicit_iteration_count
    /\ ~results.has_error_
    /\ Len(non_aggregates') = 1

\* C11 as stated: that Run has no error, at least one iteration, and either
\* seconds >= min_time on the selected time basis or exactly kMaxIterations
\* iterations.
C11_SecondsOrCap ==
    [][FirstAutoRun
          => /\ ~non_aggregates'[1].error_occurred
             /\ non_aggregates'[1].iterations >= 1
             /\ \/ RatGE(SelectSeconds(b, results), RatInt(ResolveMinTime(b, FLAGS)))
                \/ non_aggregates'[1].iterations = kMaxIterations]_vars

\* C11 amended: that Run has no error, at least one iteration, and either
\* seconds >= min_time on the selected time basis, or exactly kMaxIterations
\* iterations, or manual time is not used and the mean real time of the
\* trial is at least 5 * min_time.
C11_SecondsOrCapOrRealTime ==
    [][FirstAutoRun
          => /\ ~non_aggregates'[1].error_occurred
             /\ non_aggregates'[1].iterations >= 1
             /\ \/ RatGE(SelectSeconds(b, results), RatInt(ResolveMinTime(b, FLAGS)))
                \/ non_aggregates'[1].iterations = kMaxIterations
                \/ /\ ~b.use_manual_time
                   /\ RatGE(non_aggregates'[1].real_accumulated_time,
                            RatInt(5 * ResolveMinTime(b, FLAGS)))]_vars

C11_Witness ==
    /\ b.threads = 1 /\ ~has_explicit_iteration_count
    /\ Len(non_aggregates) >= 1 /\ ResultRead /\ repetition_num = 1
    /\ ~non_aggregates[1].error_occurred
    /\ non_aggregates[1].iterations = kMaxIterations
    /\ ~RatGE(SelectSeconds(b, results), RatInt(ResolveMinTime(b, FLAGS)))
    /\ ~RatGE(results.real_time_used, RatInt(5 * ResolveMinTime(b, FLAGS)))

\* A step that appends a Run record.
Reports == cpc = "decide" /\ Len(non_aggregates') = Len(non_aggregates) + 1
\* The record such a step appends.
NewReport == non_aggregates'[Len(non_aggregates')]

\* C12 as stated: the seconds the should-report decision used are what the
\* Run record carries as real_accumulated_time, whatever use_manual_time
\* and use_real_time are.
C12_BasisIsRealAccumulatedTime ==
    [][Reports => NewReport.real_accumulated_time = SelectSeconds(b, results)]_vars

\* C12 amended: in a Run record without error, real_accumulated_time is the
\* deciding seconds when use_manual_time or use_real_time is set; otherwise
\* the deciding seconds are the record's cpu_accumulated_time and
\* real_accumulated_time is the trial's mean real time.
C12_BasisStored ==
    [][(Reports /\ ~results.has_error_)
          => IF b.use_manual_time \/ b.use_real_time
             THEN NewReport.real_accumulated_time = SelectSeconds(b, results)
             ELSE /\ NewReport.cpu_accumulated_time = SelectSeconds(b, results)
                  /\ NewReport.real_accumulated_time = results.real_time_used]_vars

C12_Witness ==
    /\ Decided /\ Len(non_aggregates) >= 1
    /\ b.use_manual_time /\ b.use_real_time
    /\ ~LastReport.error_occurred
    /\ results.manual_time_used # results.real_time_used
    /\ LastReport.real_accumulated_time = results.manual_time_used
    /\ RatGT(results.manual_time_used, RatInt(0))

\* C13: the Result of a trial has its error slot set only by a SkipWithError
\* call of that trial, so a Run record has error_occurred only if a worker
\* of the trial that produced it signalled an error; and RunBenchmark is
\* done only when every repetition has produced its Run, errored or not.
C13_ErrorsStayInTheirTrial ==
    /\ manager # NoManager
          => /\ manager.results.has_error_ = (skip_calls # <<>>)
             /\ (skip_calls = <<>> => manager.results.error_message_ = "")
             /\ ((\A w \in Workers : ~Merged(w)) =>
                    manager.results = [InitResult EXCEPT
                        !.has_error_ = manager.results.has_error_,
                        !.error_message_ = manager.results.error_message_])
    /\ (Decided /\ Len(non_aggregates) >= 1 /\ LastReport.error_occurred)
          => skip_calls # <<>>
    /\ cpc = "done"
          => Len(non_aggregates) = Repeats /\ repetition_num = Repeats

C13_Witness ==
    /\ cpc = "done" /\ Len(non_aggregates) = 2 /\ b.threads >= 2
    /\ non_aggregates[1].error_occurred
    /\ ~non_aggregates[2].error_occurred
    /\ non_aggregates[2].iterations = b.threads * iters
    /\ skip_calls = <<>>

\* What a step has added to the log.
Logged == SubSeq(log', Len(log) + 1, Len(log'))

\* What the hand-off of the instance just run owes a reporter: its
\* non_aggregates if and only if the reporter's flag is false, then its
\* aggregates_only if and only if there are any.
Owed(reporter, report_aggregates_only) ==
    (IF ~report_aggregates_only
     THEN <<[op |-> "ReportRuns", reporter |-> reporter, runs |-> non_aggregates]>>
     ELSE <<>>)
    \o (IF Len(run_results.aggregates_only) > 0
        THEN <<[op |-> "ReportRuns", reporter |-> reporter,
                runs |-> run_results.aggregates_only]>>
        ELSE <<>>)

OwedAll ==
    Owed("display", run_results.display_report_aggregates_only)
    \o (IF env.file_reporter
        THEN Owed("file", run_results.file_report_aggregates_only)
        ELSE <<>>)

FamilyRuns(lo, hi) ==
    LET sel == SelectSeq(SubSeq(log, lo, hi),
                         LAMBDA e : /\ e.op = "push_back"
                                    /\ ~e.report.error_occurred
                                    /\ e.instance.complexity # "oNone")
    IN  [i \in 1 .. Len(sel) |-> sel[i].report]

\* The position of the last call of ComputeBigO before position k, or 0.
LastFit(k) ==
    LET fits == {j \in 1 .. (k - 1) : log[j].op = "ComputeBigO"}
    IN  IF fits = {} THEN 0 ELSE CHOOSE j \in fits : \A i \in fits : i <= j

\* The calls of ComputeBigO a step has made.
Fits == SelectSeq(Logged, LAMBDA e : e.op = "ComputeBigO")

\* C15: complexity family accumulation. Over any sequence of instances,
\* ComputeBigO is called when RunBenchmark returns, once, exactly for an
\* instance with complexity != oNone and last_benchmark_instance; its input
\* is exactly the reports pushed since the call before it by trials without
\* error of instances with complexity != oNone; the family vector is empty
\* right after the call, and holds those reports at any other time.
C15_FamilyAccumulation ==
    /\ cpc = "done" => (FitsFamily(b) <=> log # <<>>)
    /\ [](/\ \A k \in 1 .. Len(log) :
                log[k].op = "ComputeBigO"
                   => log[k].reports = FamilyRuns(LastFit(k) + 1, k - 1)
          /\ complexity_reports = FamilyRuns(LastFit(Len(log) + 1) + 1, Len(log)))
    /\ [][/\ Len(Fits) = (IF cpc # "done" /\ cpc' = "done" /\ FitsFamily(b') THEN 1 ELSE 0)
          /\ Len(Fits) = 1 => complexity_reports' = <<>>]_vars

\* C15 witness: a second fit whose input leaves out the errored run of its
\* own instance and everything from before the first fit.
C15_Witness ==
    /\ cpc = "end"
    /\ \E j, k \in 1 .. Len(log) :
          /\ j < k
          /\ log[j].op = "ComputeBigO" /\ Len(log[j].reports) = 1
          /\ log[k].op = "ComputeBigO" /\ Len(log[k].reports) = 1
          /\ \E i \in (j + 1) .. (k - 1) :
                log[i].op = "push_back" /\ log[i].report.error_occurred

\* The reports pushed so far, in order.
Pushes ==
    LET sel == SelectSeq(log, LAMBDA e : e.op = "push_back")
    IN  [i \in 1 .. Len(sel) |-> sel[i].report]

\* RunBenchmarks has run the same instance twice and is through. RunBenchmark
\* keeps nothing from one instance to the next but the family vector, which
\* an instance without complexity leaves alone: the second run is a second
\* execution of the driver on that instance, with clock values of its own.
TwoExecutions ==
    /\ cpc = "end"
    /\ b.complexity = "oNone"
    /\ Repeats > 0
    /\ Len(Pushes) = 2 * Repeats
    /\ \A k \in 1 .. Len(log) : log[k].op = "push_back" => log[k].instance = b

\* C16 as stated: two executions of the driver on the same instance with the
\* same configuration and bodies that never call SkipWithError, differing
\* only in the clock values, give reports with the same name, iterations,
\* error flag and complexity n.
C16_SameNonTimingFields ==
    TwoExecutions
       => \A k \in 1 .. Repeats :
             (~Pushes[k].error_occurred /\ ~Pushes[k + Repeats].error_occurred)
                => /\ Pushes[k].benchmark_name = Pushes[k + Repeats].benchmark_name
                   /\ Pushes[k].iterations = Pushes[k + Repeats].iterations
                   /\ Pushes[k].error_occurred = Pushes[k + Repeats].error_occurred
                   /\ Pushes[k].complexity_n = Pushes[k + Repeats].complexity_n

\* C16, amended: two executions of the driver on the same instance with the
\* same configuration, whose bodies signal an error in the same reports,
\* give reports with the same name and complexity n, and with the same
\* iterations if the instance has an iteration count of its own.
C16_SameFieldsButIterations ==
    TwoExecutions
       => \A k \in 1 .. Repeats :
             Pushes[k].error_occurred = Pushes[k + Repeats].error_occurred
                => /\ Pushes[k].benchmark_name = Pushes[k + Repeats].benchmark_name
                   /\ Pushes[k].complexity_n = Pushes[k + Repeats].complexity_n
                   /\ has_explicit_iteration_count
                         => Pushes[k].iterations = Pushes[k + Repeats].iterations

\* C16 witness: two executions on an instance with an iteration count of
\* its own whose clocks differ.
C16_Witness ==
    /\ TwoExecutions /\ has_explicit_iteration_count
    /\ ~Pushes[1].error_occurred /\ ~Pushes[1 + Repeats].error_occurred
    /\ Pushes[1].cpu_accumulated_time # Pushes[1 + Repeats].cpu_accumulated_time
    /\ Pushes[1].complexity_n = 8
    /\ Pushes[1].iterations = Pushes[1 + Repeats].iterations

\* The calls of the memory probe a step has made.
Probes == SelectSeq(Logged, LAMBDA e : e.op \in {"Start", "RunInThread", "Stop"})

\* C17: memory probe gating. The memory probe is run only when a memory
\* manager is registered, only for a trial that is reported and whose
\* workers signalled no error, never for an errored or a retried trial; it
\* is Start, one single-threaded run of min(16, iters) iterations, Stop, in
\* this order and before the report is pushed.
C17_ProbeGating ==
    [][(cpc = "decide" /\ Probes # <<>>)
          => /\ env.memory_manager
             /\ Len(non_aggregates') = Len(non_aggregates) + 1
             /\ ~results.has_error_
             /\ SubSeq(Logged, 1, 3) =
                   <<[op |-> "Start"],
                     [op |-> "RunInThread", iters |-> Min(16, iters), threads |-> 1],
                     [op |-> "Stop"]>>
             /\ Len(Probes) = 3
             /\ Logged[4].op = "push_back"]_vars

\* C18: the iteration controller terminates. When every trial terminates,
\* each repetition that is begun ends after finitely many trials with
\* exactly one more Run record, whatever times the trials measure; each
\* retry raises iters, and no trial is retried at kMaxIterations.
C18_ControllerTerminates ==
    /\ \A r \in 0 .. 1 :
          (cpc = "trial" /\ repetition_num = r)
             ~> (repetition_num = r + 1 /\ Len(non_aggregates) = r + 1)
    /\ [](Len(non_aggregates) = repetition_num)
    /\ [][(cpc = "decide" /\ repetition_num' = repetition_num)
             => (iters < kMaxIterations /\ iters' > iters)]_vars

\* C18 witness: a repetition ended by the cap, with no time measured at all.
C18_Witness ==
    /\ Decided /\ repetition_num = 1 /\ iters = kMaxIterations
    /\ non_aggregates[1].cpu_accumulated_time = RatInt(0)
    /\ non_aggregates[1].real_accumulated_time = RatInt(0)

\* Worker w enters FinishKeepRunning and gets to its barrier.
EntersStopBarrier(w) == wpc[w] # "stop_barrier" /\ wpc'[w] = "stop_barrier"

\* C19: run-state lifecycle. Whatever a body does with its State without
\* failing a check, started_ and finished_ each go from false to true once
\* and stay, finished_ implies started_, and FinishKeepRunning (hence the
\* rendezvous at the stop barrier) is executed at most once on a State,
\* error or not.
C19_RunStateLifecycle ==
    [][cpc # "trial"
          => \A w \in Workers :
                /\ st[w].started_ => st'[w].started_
                /\ st[w].finished_ => st'[w].finished_
                /\ st'[w].finished_ => st'[w].started_
                /\ EntersStopBarrier(w) => ~st[w].finished_]_vars

\* Worker w leaves the start barrier: line 438, where the harness starts
\* the timer unless an error occurred.
LeavesStartBarrier(w) == wpc[w] = "start_barrier" /\ wpc'[w] # "start_barrier"

\* Worker w, without error, executes lines 443-445 of FinishKeepRunning,
\* where the harness stops the timer.
FinishStopsTimer(w) ==
    /\ wpc[w] \in {"run", "finish"}
    /\ wpc'[w] \in {"stop_barrier", "StopTimer"}
    /\ ~st[w].error_occurred_

\* The body of worker w has paused the timer and not resumed it.
PausedByBody(w) ==
    /\ wpc[w] = "run"
    /\ st[w].started_ /\ ~st[w].finished_ /\ ~st[w].error_occurred_
    /\ ~timer[w].running_

\* What the harness keeps of the timer's preconditions whatever the body
\* does: it starts the timer only when it is not running, never after
\* SkipWithError on its State, and the timer of a worker that has finished
\* its loop is not running when the worker merges.
TimerKept(w) ==
    /\ (LeavesStartBarrier(w) /\ ~st[w].error_occurred_) => ~timer[w].running_
    /\ st[w].error_occurred_ => ~(~timer[w].running_ /\ timer'[w].running_)
    /\ (wpc[w] = "returned" /\ wpc'[w] = "merged" /\ st[w].finished_)
          => ~timer[w].running_

Retry == cpc = "decide" /\ cpc' = "trial" /\ repetition_num' = repetition_num

\* Lines 327-331: `next` is the clamp of the fraction nx and its cast after
\* adding 0.5.
ClampedAndCast(nx, next) ==
    IF ~WideLE(nx.num, WideTimes(Wide(kMaxIterations), nx.d))
    THEN next = kMaxIterations
    ELSE /\ WideLE(WideTimes(Wide(next), 2 * nx.d),
                   WidePlus(WideTimes(nx.num, 2), nx.d))
         /\ ~WideLE(WideTimes(Wide(next + 1), 2 * nx.d),
                    WidePlus(WideTimes(nx.num, 2), nx.d))

\* next_iters of fraction nx is at most max(factor * it, it + 1).
GrowsAtMost(nx, factor, it) ==
    WideLE(nx.num, WideMax(WideTimes(Wide(it), factor * nx.d),
                           WideTimes(Wide(it + 1), nx.d)))

C22_ReportAssertionHolds ==
    cpc = "done"
       => /\ ReportAssertion(run_results.display_report_aggregates_only)
          /\ env.file_reporter
                => ReportAssertion(run_results.file_report_aggregates_only)

\* ----------------------------------------------------------------- C23
\* C23: the iteration count is carried across repetitions. iters is set
\* once per instance; the report of the first repetition leaves it as it
\* is and no later step changes it; every repetition after the first runs
\* one trial, of exactly that many iterations per thread, and reports it,
\* also when the first repetition was reported because of an error; there
\* is one record per finished repetition, so non_aggregates ends with
\* exactly `repeats` records.
C23_ItersCarriedAcrossRepetitions ==
    /\ [](/\ Len(non_aggregates) = repetition_num
          /\ cpc = "done" => Len(non_aggregates) = Repeats
          /\ \A k \in 1 .. Len(non_aggregates) :
                non_aggregates[k].iterations = b.threads * iters)
    /\ [][/\ repetition_num' > repetition_num => iters' = iters
          /\ repetition_num > 0 =>
                /\ iters' = iters
                /\ cpc = "trial" =>
                      /\ cpc' = "decide"
                      /\ results'.iterations = b.threads * iters
                /\ cpc = "decide" =>
                      /\ repetition_num' = repetition_num + 1
                      /\ non_aggregates' =
                            Append(non_aggregates,
                                   CreateRunReport(b, results, 0,
                                                   CHOOSE r \in MemoryResults : TRUE,
                                                   SelectSeconds(b, results)))]_vars

\* The first repetition retried once, was reported at 10 iterations because
\* its second trial signalled an error, and the second repetition ran one
\* trial of 10 iterations without error.
C23_Witness ==
    /\ cpc = "done" /\ Repeats = 2 /\ Len(non_aggregates) = 2
    /\ ~has_explicit_iteration_count
    /\ iters = 10
    /\ non_aggregates[1].error_occurred
    /\ ~non_aggregates[2].error_occurred
    /\ non_aggregates[2].iterations = b.threads * 10
    /\ results.iterations = b.threads * 10

\* ----------------------------------------------------------------- C24
\* C24: the memory probe leaves the measured trial untouched. From the
\* moment the probe is started until its trial is reported, results (the
\* Result of the measured trial as the controller read it) and iters do
\* not change, whatever the body does to the probe's own manager, timer
\* and State; and the Run record that is pushed after the probe is the one
\* CreateRunReport builds from that Result and from the seconds selected
\* from it.
C24_ProbeLeavesTrialUntouched ==
    [][(cpc = "probe" \/ cpc' = "probe")
          => /\ results' = results
             /\ iters' = iters
             /\ non_aggregates' # non_aggregates
                   => \E memory_result \in MemoryResults :
                         non_aggregates' =
                            Append(non_aggregates,
                                   CreateRunReport(b, results, Min(16, iters),
                                                   memory_result,
                                                   SelectSeconds(b, results)))]_vars

\* A trial without error, label or counter has been reported with its
\* memory result after a probe run whose body gave its counter a value and
\* called SkipWithError: the probe's State is still there, the record shows
\* neither.
C24_Witness ==
    /\ cpc = "done" /\ Len(non_aggregates) = 1
    /\ LastReport.has_memory_result
    /\ ~LastReport.error_occurred
    /\ LastReport.report_label = ""
    /\ LastReport.counters = 0
    /\ LastReport.cpu_accumulated_time = RatInt(14)
    /\ st[0].error_occurred_
    /\ st[0].counters = 5
    /\ skip_calls = <<"bad">>

====
